---- MODULE Spec2Model ----
(***************************************************************************)
(* Model of src/web/simulator.ts: the Simulator panel controller (static   *)
(* singleton reference, panel lifecycle, simulateAsync, inbound message     *)
(* dispatch, targetConfig requests) and the HTML assembler                  *)
(* getSimLoaderHtmlAsync.                                                   *)
(*                                                                         *)
(* JavaScript values are modelled as strings; text that the assembler       *)
(* scans is a sequence of tokens (see the token definitions below).         *)
(***************************************************************************)
EXTENDS Integers, Sequences, FiniteSets, TLC

(***************************************************************************)
(* Bounds of the model.                                                     *)
(***************************************************************************)
MaxInst == 2      \* Simulator instances ever constructed
MaxDisp == 2      \* disposal callbacks ever registered
MaxLoads == 2     \* simulateAsync calls ever started
MaxOut == 2       \* messages ever posted to a webview
MaxLog == 2       \* entries held by the output channel
MaxFrames == 2    \* stack frames / serial entries in one inbound message
MaxTemplate == 3  \* tokens in a loader template drawn for the assembler

(***************************************************************************)
(* JavaScript's undefined and null.                                         *)
(***************************************************************************)
Undefined == "<undefined>"
Null == "<null>"

Insts == 1..MaxInst

VARIABLES
    currentSimulator,  \* Simulator.currentSimulator: 0 (undefined) or an instance
    panel,             \* per instance: "none" (not constructed), "live", "disposed"
    revealed,          \* per instance: panel.reveal has been called
    binaryJS,          \* per instance: this.binaryJS
    simHtml,           \* per instance: this.simHtml
    simState,          \* per instance: this.simState
    html,              \* per instance: this.panel.webview.html
    disposables,       \* per instance: this.disposables, a sequence of callback ids
    disposeRuns,       \* per callback id: how often its dispose() has run
    simconsole,        \* Simulator.simconsole: the output channel
    outbox,            \* every panel.webview.postMessage call, in order
    loads,             \* simulateAsync calls suspended at an await
    loadsStarted,      \* simulateAsync calls started so far
    simReads,          \* per instance: workspaceState.get("simstate") calls
    loadLog,           \* per instance: what its simulateAsync calls have done so far
    tcRequests,        \* handleTargetConfigRequestAsync calls suspended at an await
    asm                \* the assembler applied to drawn inputs (SpecHtml)

vars == <<currentSimulator, panel, revealed, binaryJS, simHtml, simState, html,
          disposables, disposeRuns, simconsole, outbox, loads, loadsStarted,
          simReads, loadLog, tcRequests, asm>>

lifeVars == <<currentSimulator, panel, revealed, disposables, disposeRuns>>
fieldVars == <<binaryJS, simHtml, simState, html>>
loadVars == <<loads, loadsStarted, simReads, loadLog>>

(***************************************************************************)
(* Text tokens.  A document is a sequence of tokens; the literal            *)
(* "usePostMessage: false" is the two tokens <<UsePM, False>>.              *)
(***************************************************************************)
UsePM == "usePostMessage: "
False == "false"
True == "true"
Text == "x"
TagLoader == "<script type=\"text/javascript\" src=\"loader.js\"></script>"
TagCustom == "<script type=\"text/javascript\" src=\"custom.js\"></script>"
TagOther == "<script type=\"text/javascript\" src=\"other.js\"></script>"
ScriptOpen == "<script type=\"text/javascript\">"
ScriptClose == "</script>"
SimJsTag == "<script type=\"text/javascript\" src=\"resources/sim.js\"></script>"
StyleOpen == "<style>"
StyleClose == "</style>"
injectedCss == "#root.simx {...} #root.simx iframe {...}"

(***************************************************************************)
(* getSimLoaderHtmlAsync: the HTML assembler.                               *)
(***************************************************************************)
Absent == <<"<no such file>">>

\* the tags the regular expression of index.replace matches
ScriptTags == {TagLoader, TagCustom, TagOther}

\* the replacer callback of index.replace: what one matched tag becomes
ReplaceTag(match, loaderJs, customJs) ==
    IF match = TagLoader
    THEN <<ScriptOpen>> \o loaderJs \o
         <<ScriptClose, SimJsTag, StyleOpen, injectedCss, StyleClose>>
    ELSE IF match = TagCustom
    THEN <<ScriptOpen>> \o customJs \o <<ScriptClose>>
    ELSE <<>>

\* index.replace(/<script ... src="..."></script>/g, replacer): one pass over
\* the template; inlined bodies are not scanned again
RECURSIVE InlineScripts(_, _, _)
InlineScripts(index, loaderJs, customJs) ==
    IF index = <<>> THEN <<>>
    ELSE (IF Head(index) \in ScriptTags
          THEN ReplaceTag(Head(index), loaderJs, customJs)
          ELSE <<Head(index)>>)
         \o InlineScripts(Tail(index), loaderJs, customJs)

\* positions where the literal "usePostMessage: false" starts
FlagPositions(doc) ==
    {i \in 1..(Len(doc) - 1) : doc[i] = UsePM /\ doc[i + 1] = False}

ContainsFlagFalse(doc) == FlagPositions(doc) # {}

Min(S) == CHOOSE m \in S : \A n \in S : m <= n

\* String.prototype.replace with a string pattern: the first occurrence only
ReplaceFlag(doc) ==
    IF FlagPositions(doc) = {} THEN doc
    ELSE [doc EXCEPT ![Min(FlagPositions(doc)) + 1] = True]

\* the return statement of getSimLoaderHtmlAsync
AssembleHtml(index, loaderJs, customJs) ==
    ReplaceFlag(InlineScripts(index, loaderJs, customJs))

PathA == "assets/custom.js"
PathB == "assets/js/custom.js"

\* a file of the workspace: its contents, Absent (existsAsync resolves to
\* false), ProbeFails (existsAsync rejects) or Unreadable (it exists and
\* readFileAsync rejects)
ProbeFails == <<"<existsAsync rejects>">>
Unreadable == <<"<readFileAsync rejects>">>
IsContents(file) == file \notin {Absent, ProbeFails, Unreadable}

\* the if / else-if over the two candidate paths: whether a probe or read
\* rejected, the body chosen and the files read
ChooseCustomJsSecondFirst(bundleCustom, fileA, fileB) ==
    IF fileB = ProbeFails THEN [rejected |-> TRUE, customJs |-> bundleCustom, read |-> {}]
    ELSE IF fileB # Absent
    THEN [rejected |-> fileB = Unreadable,
          customJs |-> IF fileB = Unreadable THEN bundleCustom ELSE fileB,
          read |-> {PathB}]
    ELSE IF fileA = ProbeFails THEN [rejected |-> TRUE, customJs |-> bundleCustom, read |-> {}]
    ELSE IF fileA # Absent
    THEN [rejected |-> fileA = Unreadable,
          customJs |-> IF fileA = Unreadable THEN bundleCustom ELSE fileA,
          read |-> {PathA}]
    ELSE [rejected |-> FALSE, customJs |-> bundleCustom, read |-> {}]

ChooseCustomJs(bundleCustom, fileA, fileB) ==
    IF fileA = ProbeFails THEN [rejected |-> TRUE, customJs |-> bundleCustom, read |-> {}]
    ELSE IF fileA # Absent
    THEN [rejected |-> fileA = Unreadable,
          customJs |-> IF fileA = Unreadable THEN bundleCustom ELSE fileA,
          read |-> {PathA}]
    ELSE IF fileB = ProbeFails THEN [rejected |-> TRUE, customJs |-> bundleCustom, read |-> {}]
    ELSE IF fileB # Absent
    THEN [rejected |-> fileB = Unreadable,
          customJs |-> IF fileB = Unreadable THEN bundleCustom ELSE fileB,
          read |-> {PathB}]
    ELSE [rejected |-> FALSE, customJs |-> bundleCustom, read |-> {}]

\* the tokens of the assembled document that stand where the body inlined
\* for the tag at template position k was put (after the opening <script>)
InlinedBody(doc, index, loaderJs, customJs, k) ==
    LET open == Len(InlineScripts(SubSeq(index, 1, k - 1), loaderJs, customJs)) + 1
        body == IF index[k] = TagLoader THEN loaderJs ELSE customJs
    IN SubSeq(doc, open + 1, open + Len(body))

(***************************************************************************)
(* The bundle (simloaderFiles) and the workspace as the controller sees     *)
(* them.                                                                    *)
(***************************************************************************)
simloaderIndex == <<Text, TagLoader, UsePM, False, TagCustom>>
simloaderLoaderJs == <<"loader.js of the bundle">>
simloaderCustomJs == <<"custom.js of the bundle">>

\* what an override file on disk may hold
FileContents == {<<"custom.js of the user">>}
Files == FileContents \cup {Absent, ProbeFails, Unreadable}

Programs == {"js1", "js2"}             \* binaryJS passed to simulateAsync
SimHtmls == {"sim.html"}               \* what getSimHtmlAsync resolves to
SimStates == {"saved"}         \* workspaceState.get("simstate", {})

NoAsm == [pc |-> "off"]

\* no simulateAsync call yet: started and done are the numbers of the last call
\* started and of the last call that ran to its end, fetched is what that
\* call's getSimHtmlAsync resolved to, lastFetch the call whose
\* getSimHtmlAsync resolved most recently, failedAt the await at which the
\* last rejected call ended, onDisposed whether a call set the content of the
\* panel after the panel was disposed
NoLoads == [started |-> 0, done |-> 0, fetched |-> Undefined, lastFetch |-> 0,
            failedAt |-> "none", onDisposed |-> FALSE]

Init ==
    /\ currentSimulator = 0
    /\ panel = [i \in Insts |-> "none"]
    /\ revealed = [i \in Insts |-> FALSE]
    /\ binaryJS = [i \in Insts |-> Undefined]
    /\ simHtml = [i \in Insts |-> Undefined]
    /\ simState = [i \in Insts |-> Undefined]
    /\ html = [i \in Insts |-> <<>>]
    /\ disposables = [i \in Insts |-> <<>>]
    /\ disposeRuns = [d \in 1..MaxDisp |-> 0]
    /\ simconsole = [created |-> FALSE, lines |-> <<>>, shown |-> FALSE]
    /\ outbox = <<>>
    /\ loads = {}
    /\ loadsStarted = 0
    /\ simReads = [i \in Insts |-> 0]
    /\ loadLog = [i \in Insts |-> NoLoads]
    /\ tcRequests = {}
    /\ asm = NoAsm

Constructed == {i \in Insts : panel[i] # "none"}
Live == {i \in Insts : panel[i] = "live"}

\* new Simulator(panel): the instance gets the next free identity
NewId == Cardinality(Constructed) + 1

\* the constructor: fields of a fresh instance around a fresh panel
Construct(i) ==
    /\ panel' = [panel EXCEPT ![i] = "live"]
    /\ disposables' = [disposables EXCEPT ![i] = <<>>]

\* Simulator.createOrShow
CreateOrShowAlwaysNew ==
    /\ simconsole' = [simconsole EXCEPT !.created = TRUE, !.lines = <<>>]
    /\ NewId \in Insts
    /\ Construct(NewId)
    /\ currentSimulator' = NewId
    /\ UNCHANGED <<revealed, disposeRuns, fieldVars, outbox, loadVars,
                   tcRequests, asm>>

CreateOrShow ==
    /\ simconsole' = [simconsole EXCEPT !.created = TRUE, !.lines = <<>>]
    /\ IF currentSimulator # 0
       THEN /\ simState' = [simState EXCEPT ![currentSimulator] = Null]
            /\ revealed' = [revealed EXCEPT ![currentSimulator] = TRUE]
            /\ UNCHANGED <<currentSimulator, panel, disposables, binaryJS,
                           simHtml, html>>
       ELSE /\ NewId \in Insts
            /\ Construct(NewId)
            /\ currentSimulator' = NewId
            /\ UNCHANGED <<revealed, fieldVars>>
    /\ UNCHANGED <<disposeRuns, outbox, loadVars, tcRequests, asm>>

\* Simulator.revive, as called by SimulatorSerializer.deserializeWebviewPanel
\* with a panel the host restored
Revive ==
    /\ NewId \in Insts
    /\ Construct(NewId)
    /\ currentSimulator' = NewId
    /\ UNCHANGED <<revealed, disposeRuns, fieldVars, simconsole, outbox,
                   loadVars, tcRequests, asm>>

\* the ids of the callbacks registered so far, over all instances
Registered == UNION {{disposables[i][k] : k \in 1..Len(disposables[i])} : i \in Insts}

\* addDisposable(d), d a callback not registered before
AddDisposable(i) ==
    /\ panel[i] = "live"
    /\ Cardinality(Registered) < MaxDisp
    /\ disposables' = [disposables EXCEPT
                          ![i] = Append(@, Cardinality(Registered) + 1)]
    /\ UNCHANGED <<currentSimulator, panel, revealed, disposeRuns, fieldVars,
                   simconsole, outbox, loadVars, tcRequests, asm>>

\* the onDidDispose handler the constructor installs: the host closed the panel
DisposeAlwaysClears(i) ==
    /\ panel[i] = "live"
    /\ panel' = [panel EXCEPT ![i] = "disposed"]
    /\ currentSimulator' = 0
    /\ disposeRuns' = [d \in 1..MaxDisp |->
                          disposeRuns[d] +
                          Cardinality({k \in 1..Len(disposables[i]) :
                                          disposables[i][k] = d})]
    /\ UNCHANGED <<revealed, disposables, fieldVars, simconsole, outbox,
                   loadVars, tcRequests, asm>>

Dispose(i) ==
    /\ panel[i] = "live"
    /\ panel' = [panel EXCEPT ![i] = "disposed"]
    /\ currentSimulator' = IF currentSimulator = i THEN 0 ELSE currentSimulator
    /\ disposeRuns' = [d \in 1..MaxDisp |->
                          disposeRuns[d] +
                          Cardinality({k \in 1..Len(disposables[i]) :
                                          disposables[i][k] = d})]
    /\ UNCHANGED <<revealed, disposables, fieldVars, simconsole, outbox,
                   loadVars, tcRequests, asm>>

(***************************************************************************)
(* simulateAsync.  A call suspended at an await is a record of loads; pc    *)
(* names the await: "assemble" (getSimLoaderHtmlAsync), "simHtml"           *)
(* (getSimHtmlAsync), "simState" (workspaceState.get).                      *)
(***************************************************************************)
LoadsOf(i) == {l \in loads : l.inst = i}

\* simulateAsync(binaryJS), called on Simulator.currentSimulator, up to its
\* first await
SimulateStart(i, js) ==
    /\ i = currentSimulator
    /\ loadsStarted < MaxLoads
    /\ binaryJS' = [binaryJS EXCEPT ![i] = js]
    /\ html' = [html EXCEPT ![i] = <<>>]
    /\ loads' = loads \cup {[id |-> loadsStarted + 1, inst |-> i, pc |-> "assemble",
                             simulatorHTML |-> <<>>, fetched |-> Undefined,
                             pending |-> Undefined]}
    /\ loadsStarted' = loadsStarted + 1
    /\ loadLog' = [loadLog EXCEPT ![i].started = loadsStarted + 1]
    /\ UNCHANGED <<lifeVars, simHtml, simState, simconsole, outbox, simReads,
                   tcRequests, asm>>

\* getSimLoaderHtmlAsync resolves: the files on disk are whatever they are
\* when it probes them
LoadAssembledPublishes(l) ==
    /\ l \in loads /\ l.pc = "assemble"
    /\ \E fileA \in Files, fileB \in Files :
          LET c == ChooseCustomJs(simloaderCustomJs, fileA, fileB)
              doc == AssembleHtml(simloaderIndex, simloaderLoaderJs, c.customJs)
          IN /\ ~c.rejected
             /\ loads' = (loads \ {l}) \cup
                   {[l EXCEPT !.pc = "simHtml", !.simulatorHTML = doc]}
             /\ html' = [html EXCEPT ![l.inst] = doc]
    /\ UNCHANGED <<lifeVars, binaryJS, simHtml, simState, simconsole, outbox,
                   loadsStarted, simReads, loadLog, tcRequests, asm>>

LoadAssembled(l) ==
    /\ l \in loads /\ l.pc = "assemble"
    /\ \E fileA \in Files, fileB \in Files :
          LET c == ChooseCustomJs(simloaderCustomJs, fileA, fileB)
          IN /\ ~c.rejected
             /\ loads' = (loads \ {l}) \cup
                   {[l EXCEPT !.pc = "simHtml",
                              !.simulatorHTML =
                                  AssembleHtml(simloaderIndex, simloaderLoaderJs,
                                               c.customJs)]}
    /\ UNCHANGED <<lifeVars, fieldVars, simconsole, outbox, loadsStarted,
                   simReads, loadLog, tcRequests, asm>>

\* existsAsync / readFileAsync (inside getSimLoaderHtmlAsync) or
\* getSimHtmlAsync rejects: simulateAsync has no try, the call ends there
LoadRejectedPublishes(l) ==
    /\ l \in loads
    /\ \/ /\ l.pc = "assemble"
          /\ \E fileA \in Files, fileB \in Files :
                ChooseCustomJs(simloaderCustomJs, fileA, fileB).rejected
       \/ l.pc = "simHtml"
    /\ loads' = loads \ {l}
    /\ loadLog' = [loadLog EXCEPT ![l.inst].failedAt = l.pc]
    /\ html' = [html EXCEPT ![l.inst] = simloaderIndex]
    /\ UNCHANGED <<lifeVars, binaryJS, simHtml, simState, simconsole, outbox,
                   loadsStarted, simReads, tcRequests, asm>>

LoadRejected(l) ==
    /\ l \in loads
    /\ \/ /\ l.pc = "assemble"
          /\ \E fileA \in Files, fileB \in Files :
                ChooseCustomJs(simloaderCustomJs, fileA, fileB).rejected
       \/ l.pc = "simHtml"
    /\ loads' = loads \ {l}
    /\ loadLog' = [loadLog EXCEPT ![l.inst].failedAt = l.pc]
    /\ UNCHANGED <<lifeVars, fieldVars, simconsole, outbox, loadsStarted,
                   simReads, tcRequests, asm>>

NoState(v) == v \in {Null, Undefined}     \* v == null

\* the log of instance i after load l ran to its end, having set the content
\* of the panel
Completed(l, h) ==
    [loadLog EXCEPT ![l.inst].done = l.id,
                    ![l.inst].fetched = h,
                    ![l.inst].onDisposed = @ \/ panel[l.inst] = "disposed"]

\* getSimHtmlAsync resolves: from "this.simHtml = ..." to the next await or,
\* when simulator state is held, to the end of the function
LoadSimHtmlAlwaysReads(l, h) ==
    /\ l \in loads /\ l.pc = "simHtml"
    /\ simHtml' = [simHtml EXCEPT ![l.inst] = h]
    /\ \E v \in SimStates :
          loads' = (loads \ {l}) \cup
                   {[l EXCEPT !.pc = "simState", !.fetched = h, !.pending = v]}
    /\ simReads' = [simReads EXCEPT ![l.inst] = @ + 1]
    /\ loadLog' = [loadLog EXCEPT ![l.inst].lastFetch = l.id]
    /\ UNCHANGED <<html, lifeVars, binaryJS, simState, simconsole, outbox,
                   loadsStarted, tcRequests, asm>>

LoadSimHtml(l, h) ==
    /\ l \in loads /\ l.pc = "simHtml"
    /\ simHtml' = [simHtml EXCEPT ![l.inst] = h]
    /\ IF NoState(simState[l.inst])
       THEN /\ \E v \in SimStates :
                  loads' = (loads \ {l}) \cup
                           {[l EXCEPT !.pc = "simState", !.fetched = h,
                                      !.pending = v]}
            /\ simReads' = [simReads EXCEPT ![l.inst] = @ + 1]
            /\ loadLog' = [loadLog EXCEPT ![l.inst].lastFetch = l.id]
            /\ UNCHANGED html
       ELSE /\ html' = [html EXCEPT ![l.inst] = l.simulatorHTML]
            /\ loads' = loads \ {l}
            /\ loadLog' = [Completed(l, h) EXCEPT ![l.inst].lastFetch = l.id]
            /\ UNCHANGED simReads
    /\ UNCHANGED <<lifeVars, binaryJS, simState, simconsole, outbox,
                   loadsStarted, tcRequests, asm>>

\* the await on workspaceState.get returns: "this.simState = ..." and the
\* final "this.panel.webview.html = simulatorHTML"
LoadSimStateGuarded(l) ==
    /\ l \in loads /\ l.pc = "simState"
    /\ simState' = [simState EXCEPT ![l.inst] = l.pending]
    /\ loads' = loads \ {l}
    /\ IF panel[l.inst] = "disposed"
       THEN UNCHANGED <<html, loadLog>>
       ELSE /\ html' = [html EXCEPT ![l.inst] = l.simulatorHTML]
            /\ loadLog' = Completed(l, l.fetched)
    /\ UNCHANGED <<lifeVars, binaryJS, simHtml, simconsole, outbox,
                   loadsStarted, simReads, tcRequests, asm>>

LoadSimState(l) ==
    /\ l \in loads /\ l.pc = "simState"
    /\ simState' = [simState EXCEPT ![l.inst] = l.pending]
    /\ html' = [html EXCEPT ![l.inst] = l.simulatorHTML]
    /\ loads' = loads \ {l}
    /\ loadLog' = Completed(l, l.fetched)
    /\ UNCHANGED <<lifeVars, binaryJS, simHtml, simconsole, outbox,
                   loadsStarted, simReads, tcRequests, asm>>

(***************************************************************************)
(* Inbound messages (embedded page -> controller) and their dispatch.       *)
(***************************************************************************)
\* message.k, undefined when the message has no field k
Get(m, k) == IF k \in DOMAIN m THEN m[k] ELSE Undefined

\* {...m, ...extra}
Spread(m, extra) ==
    [k \in DOMAIN m \cup DOMAIN extra |-> IF k \in DOMAIN extra THEN extra[k] ELSE m[k]]

\* JavaScript truthiness of a string-or-missing value
Truthy(v) == v \notin {Undefined, Null, ""}

RECURSIVE SeqsUpTo(_, _)
SeqsUpTo(S, n) ==
    IF n = 0 THEN {<<>>}
    ELSE LET shorter == SeqsUpTo(S, n - 1)
         IN shorter \cup {Append(q, x) : q \in shorter, x \in S}

FetchJsMessages == {[type |-> "fetch-js", text |-> "stale text"]}

SerialEntries == [data : {"a", "b"}, time : {1}]
BulkSerialMessages ==
    {[type |-> "bulkserial", data |-> q] : q \in SeqsUpTo(SerialEntries, MaxFrames)}

StackFrames ==
    {[funcInfo |-> [functionName |-> "f", fileName |-> "x.js", line |-> 4, column |-> 2]],
     [funcInfo |-> [functionName |-> "g", fileName |-> "y.js", line |-> 0, column |-> 0]]}
OneFrame == <<[funcInfo |-> [functionName |-> "f", fileName |-> "x.js",
                             line |-> 4, column |-> 2]]>>
DebuggerMessages ==
    {[type |-> "debugger", subtype |-> "breakpoint", exceptionMessage |-> "boom",
      stackframes |-> q] : q \in SeqsUpTo(StackFrames, MaxFrames)}
    \cup
    {[type |-> "debugger", subtype |-> "trace", exceptionMessage |-> "boom",
      stackframes |-> OneFrame],
     [type |-> "debugger", subtype |-> "breakpoint", exceptionMessage |-> "",
      stackframes |-> OneFrame],
     [type |-> "debugger", subtype |-> "breakpoint", stackframes |-> OneFrame],
     [type |-> "debugger", subtype |-> "trace", stackframes |-> <<>>]}

\* the breakpoint message of a thrown "boom" in f at x.js, line 4, column 2
BoomAtF ==
    [type |-> "debugger", subtype |-> "breakpoint", exceptionMessage |-> "boom",
     stackframes |-> <<[funcInfo |-> [functionName |-> "f", fileName |-> "x.js",
                                      line |-> 4, column |-> 2]]>>]

RequestIds == {"r1", "r2"}
TargetConfigMessages ==
    {[type |-> "simulator-extension", action |-> "targetConfig", id |-> r] :
        r \in RequestIds}
    \cup
    {[type |-> "simulator-extension", action |-> "targetConfig", id |-> "r1",
      config |-> "config of the page"]}
ExtensionMessages ==
    TargetConfigMessages \cup
    {[type |-> "simulator-extension", action |-> "other", id |-> "r1"]}

OtherMessages == {[type |-> "ready"]}

Messages == FetchJsMessages \cup BulkSerialMessages \cup DebuggerMessages
            \cup ExtensionMessages \cup OtherMessages

Configs == {"target config"}        \* what getTargetConfigAsync resolves to
WebConfigs == {"web config"}        \* what getWebConfigAsync resolves to

\* postMessage(msg): the outbox after the call
postMessageNoMarker(i, msg) ==
    Append(outbox, [to |-> i, msg |-> msg])

postMessage(i, msg) ==
    Append(outbox, [to |-> i, msg |-> Spread(msg, [_fromVscode |-> TRUE])])

\* postResponse(msg): the outbox after the call
postResponse(i, msg) ==
    Append(outbox, [to |-> i, msg |-> msg])

\* the reply to a fetch-js message: { ...message, text, srcDoc }
FetchJsReplyKeepsText(i, m) ==
    Spread([text |-> binaryJS[i], srcDoc |-> simHtml[i]], m)

FetchJsReply(i, m) ==
    Spread(m, [text |-> binaryJS[i], srcDoc |-> simHtml[i]])

\* the one simulator-extension message that is handled
IsTargetConfigAnyAction(m) ==
    m.type = "simulator-extension"

IsTargetConfig(m) ==
    m.type = "simulator-extension" /\ m.action = "targetConfig"

\* the text of one stack frame in the trace
FrameLineZeroBased(s) ==
    "   at " \o s.funcInfo.functionName \o " (" \o s.funcInfo.fileName \o ":"
    \o ToString(s.funcInfo.line) \o ":" \o ToString(s.funcInfo.column) \o ")\n"

FrameLine(s) ==
    "   at " \o s.funcInfo.functionName \o " (" \o s.funcInfo.fileName \o ":"
    \o ToString(s.funcInfo.line + 1) \o ":" \o ToString(s.funcInfo.column + 1) \o ")\n"

\* the loop over message.stackframes
RECURSIVE FrameLines(_)
FrameLines(frames) ==
    IF frames = <<>> THEN ""
    ELSE FrameLine(Head(frames)) \o FrameLines(Tail(frames))

StackTrace(m) == "Uncaught " \o m.exceptionMessage \o "\n" \o FrameLines(m.stackframes)

\* the loop over message.data: the channel's lines after it
RECURSIVE AppendEntriesReversed(_, _)
AppendEntriesReversed(lines, data) ==
    IF data = <<>> THEN lines
    ELSE Append(AppendEntriesReversed(lines, Tail(data)), Head(data).data)

RECURSIVE AppendEntries(_, _)
AppendEntries(lines, data) ==
    IF data = <<>> THEN lines
    ELSE AppendEntries(Append(lines, Head(data).data), Tail(data))

\* room left for the messages one more handler may post
OutboxRoom == MaxOut - Len(outbox) - Cardinality(tcRequests)

\* the condition of the "debugger" case
IsException(m) == m.subtype = "breakpoint" /\ Truthy(Get(m, "exceptionMessage"))

\* handleSimulatorMessage(message) on instance i, with handleSimExtensionMessage
\* and handleTargetConfigRequestAsync up to its first await.  The embedded
\* page exists only after createOrShow and a load, so the channel exists.
HandleSimulatorMessage(i, m) ==
    /\ panel[i] = "live"
    /\ simconsole.created
    /\ IF m.type = "fetch-js"
       THEN /\ OutboxRoom > 0
            /\ outbox' = postMessage(i, FetchJsReply(i, m))
            /\ UNCHANGED <<simconsole, tcRequests>>
       ELSE IF m.type = "bulkserial"
       THEN /\ Len(simconsole.lines) + Len(m.data) <= MaxLog
            /\ simconsole' = [simconsole EXCEPT
                                 !.lines = AppendEntries(@, m.data)]
            /\ UNCHANGED <<outbox, tcRequests>>
       ELSE IF m.type = "debugger"
       THEN IF IsException(m)
            THEN /\ Len(simconsole.lines) < MaxLog
                 /\ OutboxRoom > 0
                 /\ simconsole' = [simconsole EXCEPT
                                      !.lines = Append(@, StackTrace(m)),
                                      !.shown = TRUE]
                 /\ outbox' = postMessage(i, [type |-> "stop-sim"])
                 /\ UNCHANGED tcRequests
            ELSE UNCHANGED <<simconsole, outbox, tcRequests>>
       ELSE IF IsTargetConfig(m)
       THEN /\ OutboxRoom > 0
            /\ \E n \in (1..MaxOut) \ {r.n : r \in tcRequests} :
                  /\ \A k \in 1..(n - 1) : k \in {r.n : r \in tcRequests}
                  /\ tcRequests' = tcRequests \cup
                        {[n |-> n, inst |-> i, msg |-> m, pc |-> "target",
                          config |-> Undefined]}
            /\ UNCHANGED <<simconsole, outbox>>
       ELSE UNCHANGED <<simconsole, outbox, tcRequests>>
    /\ UNCHANGED <<lifeVars, fieldVars, loadVars, asm>>

\* getTargetConfigAsync resolves; getWebConfigAsync is called
TargetConfigResolved(r, c) ==
    /\ r \in tcRequests /\ r.pc = "target"
    /\ tcRequests' = (tcRequests \ {r}) \cup {[r EXCEPT !.pc = "web", !.config = c]}
    /\ UNCHANGED <<lifeVars, fieldVars, simconsole, outbox, loadVars, asm>>

\* getWebConfigAsync resolves: the try block's postResponse
WebConfigResolvedNoResponse(r, w) ==
    /\ r \in tcRequests /\ r.pc = "web"
    /\ tcRequests' = tcRequests \ {r}
    /\ UNCHANGED <<lifeVars, fieldVars, simconsole, outbox, loadVars, asm>>

WebConfigResolved(r, w) ==
    /\ r \in tcRequests /\ r.pc = "web"
    /\ outbox' = postResponse(r.inst,
                     Spread(r.msg, [id |-> r.msg.id, success |-> TRUE,
                                    config |-> r.config, webConfig |-> w]))
    /\ tcRequests' = tcRequests \ {r}
    /\ UNCHANGED <<lifeVars, fieldVars, simconsole, loadVars, asm>>

\* either fetch rejects: the catch block's postResponse
ConfigRejectedKeepsConfig(r) ==
    /\ r \in tcRequests
    /\ outbox' = postResponse(r.inst,
                     Spread(r.msg, [id |-> r.msg.id, success |-> FALSE,
                                    config |-> r.config]))
    /\ tcRequests' = tcRequests \ {r}
    /\ UNCHANGED <<lifeVars, fieldVars, simconsole, loadVars, asm>>

ConfigRejected(r) ==
    /\ r \in tcRequests
    /\ outbox' = postResponse(r.inst,
                     Spread(r.msg, [id |-> r.msg.id, success |-> FALSE]))
    /\ tcRequests' = tcRequests \ {r}
    /\ UNCHANGED <<lifeVars, fieldVars, simconsole, loadVars, asm>>

(***************************************************************************)
(* The controller.                                                          *)
(***************************************************************************)
Next ==
    \/ CreateOrShow
    \/ Revive
    \/ \E i \in Insts : AddDisposable(i)
    \/ \E i \in Insts : Dispose(i)
    \/ \E i \in Insts, js \in Programs : SimulateStart(i, js)
    \/ \E l \in loads : LoadAssembled(l)
    \/ \E l \in loads : LoadRejected(l)
    \/ \E l \in loads, h \in SimHtmls : LoadSimHtml(l, h)
    \/ \E l \in loads : LoadSimState(l)
    \/ \E i \in Insts, m \in Messages : HandleSimulatorMessage(i, m)
    \/ \E r \in tcRequests, c \in Configs : TargetConfigResolved(r, c)
    \/ \E r \in tcRequests, w \in WebConfigs : WebConfigResolved(r, w)
    \/ \E r \in tcRequests : ConfigRejected(r)

Spec == Init /\ [][Next]_vars

(***************************************************************************)
(* Parts of the controller: the same actions, fewer of them.                *)
(***************************************************************************)
\* panel lifecycle
NextLife ==
    \/ CreateOrShow
    \/ Revive
    \/ \E i \in Insts : AddDisposable(i)
    \/ \E i \in Insts : Dispose(i)

SpecLife == Init /\ [][NextLife]_vars

\* simulateAsync on the panels createOrShow opens.  Each call follows a build
\* of the workspace: consecutive calls are passed different programs
BuiltProgram(n) == IF n % 2 = 1 THEN "js1" ELSE "js2"

NextLoad ==
    \/ CreateOrShow
    \/ \E i \in Insts : Dispose(i)
    \/ \E i \in Insts : SimulateStart(i, BuiltProgram(loadsStarted + 1))
    \/ \E l \in loads : LoadAssembled(l)
    \/ \E l \in loads : LoadRejected(l)
    \/ \E l \in loads, h \in SimHtmls : LoadSimHtml(l, h)
    \/ \E l \in loads : LoadSimState(l)

SpecLoad == Init /\ [][NextLoad]_vars

\* the messages that write to the output channel, on the panel
\* createOrShow opens
NextLog ==
    \/ CreateOrShow
    \/ \E i \in Insts, m \in BulkSerialMessages \cup DebuggerMessages \cup OtherMessages :
          HandleSimulatorMessage(i, m)

SpecLog == Init /\ [][NextLog]_vars

\* the messages that are answered, and one that makes the controller push
ReplyMessages == FetchJsMessages \cup ExtensionMessages \cup OtherMessages \cup {BoomAtF}

NextReply ==
    \/ CreateOrShow
    \/ \E i \in Insts : Dispose(i)
    \/ \E i \in Insts, m \in ReplyMessages : HandleSimulatorMessage(i, m)
    \/ \E r \in tcRequests, c \in Configs : TargetConfigResolved(r, c)
    \/ \E r \in tcRequests, w \in WebConfigs : WebConfigResolved(r, w)
    \/ \E r \in tcRequests : ConfigRejected(r)

SpecReply == Init /\ [][NextReply]_vars

\* targetConfig requests, several at once, whose fetches all settle: the
\* promise a suspended handleTargetConfigRequestAsync call awaits resolves or
\* rejects, and the event loop then runs the call's continuation
InFlight(n) == \E r \in tcRequests : r.n = n

Settle(n) ==
    \E r \in tcRequests :
        /\ r.n = n
        /\ \/ \E c \in Configs : TargetConfigResolved(r, c)
           \/ \E w \in WebConfigs : WebConfigResolved(r, w)
           \/ ConfigRejected(r)

PlainRequests == {m \in TargetConfigMessages : "config" \notin DOMAIN m}

NextConfig ==
    \/ CreateOrShow
    \/ \E i \in Insts, m \in PlainRequests : HandleSimulatorMessage(i, m)
    \/ \E r \in tcRequests, c \in Configs : TargetConfigResolved(r, c)
    \/ \E r \in tcRequests, w \in WebConfigs : WebConfigResolved(r, w)
    \/ \E r \in tcRequests : ConfigRejected(r)

SpecConfig ==
    /\ Init /\ [][NextConfig]_vars
    /\ \A n \in 1..MaxOut : WF_vars(Settle(n))

\* simulateAsync calls, one after another or overlapping, on the panel
\* createOrShow opens, while the page asks for the program; the workspace is
\* rebuilt between calls, so getSimHtmlAsync has two documents to resolve to
RebuiltSimHtmls == SimHtmls \cup {"sim.html after a rebuild"}
FetchMessages == FetchJsMessages \cup OtherMessages

NextFetch ==
    \/ CreateOrShow
    \/ \E i \in Insts : SimulateStart(i, BuiltProgram(loadsStarted + 1))
    \/ \E l \in loads : LoadAssembled(l)
    \/ \E l \in loads, h \in RebuiltSimHtmls : LoadSimHtml(l, h)
    \/ \E l \in loads : LoadSimState(l)
    \/ \E i \in Insts, m \in FetchMessages : HandleSimulatorMessage(i, m)

SpecFetch == Init /\ [][NextFetch]_vars

(***************************************************************************)
(* The assembler on its own: getSimLoaderHtmlAsync applied to a drawn       *)
(* bundle and workspace.                                                    *)
(***************************************************************************)
TemplateTokens == {Text, UsePM, False, TagLoader, TagCustom, TagOther}
LoaderBodies == {<<"loader.js of the bundle">>, <<UsePM, False>>}
CustomBodies == {<<"custom.js of the bundle">>, <<UsePM, False>>}
FilesA == {Absent, ProbeFails, Unreadable, <<"assets/custom.js">>, <<UsePM, False>>}
FilesB == {Absent, ProbeFails, Unreadable, <<"assets/js/custom.js">>, <<UsePM, False>>}

InitHtml ==
    /\ currentSimulator = 0
    /\ panel = [i \in Insts |-> "none"]
    /\ revealed = [i \in Insts |-> FALSE]
    /\ binaryJS = [i \in Insts |-> Undefined]
    /\ simHtml = [i \in Insts |-> Undefined]
    /\ simState = [i \in Insts |-> Undefined]
    /\ html = [i \in Insts |-> <<>>]
    /\ disposables = [i \in Insts |-> <<>>]
    /\ disposeRuns = [d \in 1..MaxDisp |-> 0]
    /\ simconsole = [created |-> FALSE, lines |-> <<>>, shown |-> FALSE]
    /\ outbox = <<>>
    /\ loads = {}
    /\ loadsStarted = 0
    /\ simReads = [i \in Insts |-> 0]
    /\ loadLog = [i \in Insts |-> NoLoads]
    /\ tcRequests = {}
    /\ asm \in [pc : {"ready"},
                index : SeqsUpTo(TemplateTokens, MaxTemplate),
                loaderJs : LoaderBodies,
                customJs : CustomBodies,
                fileA : FilesA,
                fileB : FilesB,
                chosen : {<<>>},
                read : {{}},
                document : {<<>>}]

\* getSimLoaderHtmlAsync, from the bundle lookup to the returned document
GetSimLoaderHtml ==
    /\ asm.pc = "ready"
    /\ LET c == ChooseCustomJs(asm.customJs, asm.fileA, asm.fileB)
       IN asm' = IF c.rejected
                 THEN [asm EXCEPT !.pc = "rejected", !.read = c.read]
                 ELSE [asm EXCEPT !.pc = "returned",
                                  !.chosen = c.customJs,
                                  !.read = c.read,
                                  !.document = AssembleHtml(asm.index, asm.loaderJs,
                                                            c.customJs)]
    /\ UNCHANGED <<lifeVars, fieldVars, simconsole, outbox, loadVars, tcRequests>>

NextHtml == GetSimLoaderHtml

SpecHtml == InitHtml /\ [][NextHtml]_vars

(***************************************************************************)
(* Properties.                                                              *)
(***************************************************************************)

\* C1: in every reachable state at most one instance is live (constructed,
\* its panel not disposed).
C1_AtMostOneLive == Cardinality(Live) <= 1

\* C2: a show() with a current instance creates no panel and no instance,
\* keeps the current-instance reference and reveals that instance's panel;
\* a show() with no current instance creates exactly one panel and instance,
\* which becomes current; so shows alone, from no instance, leave exactly one.
C2_ShowIdempotent ==
    [][CreateOrShow =>
          IF currentSimulator # 0
          THEN /\ panel' = panel
               /\ currentSimulator' = currentSimulator
               /\ revealed'[currentSimulator]
          ELSE /\ Cardinality(Constructed') = Cardinality(Constructed) + 1
               /\ currentSimulator' \in Constructed' \ Constructed
               /\ Live' = Live \cup {currentSimulator'}
               /\ \A i \in Constructed : panel'[i] = panel[i]]_vars

C2_Witness ==
    /\ Constructed = {1}
    /\ currentSimulator = 1
    /\ panel[1] = "live"
    /\ revealed[1]

\* C3: when an instance's panel is disposed, the current-instance reference
\* is undefined afterwards and every callback registered on the instance has
\* run exactly once.
C3_DisposeClearsAndRuns ==
    [][\A i \in Insts :
          Dispose(i) =>
             /\ currentSimulator' = 0
             /\ \A k \in 1..Len(disposables[i]) :
                   disposeRuns'[disposables[i][k]] = 1]_vars

\* the response a targetConfig handler posted in this step
LastPosted == outbox'[Len(outbox')].msg

\* C4 as claimed: a rejected fetch gives a response with success = false and
\* no config / webConfig field, whatever the inbound message carried; two
\* resolved fetches give success = true with the resolved values; nothing is
\* logged.
C4_FailureOmitsConfig ==
    [][\A r \in tcRequests :
          /\ ConfigRejected(r) =>
                /\ LastPosted.success = FALSE
                /\ "config" \notin DOMAIN LastPosted
                /\ "webConfig" \notin DOMAIN LastPosted
                /\ simconsole' = simconsole
          /\ \A w \in WebConfigs :
                WebConfigResolved(r, w) =>
                   /\ LastPosted.success = TRUE
                   /\ LastPosted.config = r.config /\ r.config \in Configs
                   /\ LastPosted.webConfig = w
                   /\ simconsole' = simconsole]_vars

\* C4 amended: a rejected fetch gives a response that is the inbound message
\* with id and success = false and nothing else added, so it has a config or
\* webConfig field only if the inbound message carried one; two resolved
\* fetches give success = true with the resolved values; nothing is logged.
C4_FailureAddsNoConfig ==
    [][\A r \in tcRequests :
          /\ ConfigRejected(r) =>
                /\ Len(outbox') = Len(outbox) + 1
                /\ LastPosted.success = FALSE
                /\ DOMAIN LastPosted = DOMAIN r.msg \cup {"id", "success"}
                /\ \A k \in DOMAIN r.msg : LastPosted[k] = r.msg[k]
                /\ simconsole' = simconsole
          /\ \A w \in WebConfigs :
                WebConfigResolved(r, w) =>
                   /\ Len(outbox') = Len(outbox) + 1
                   /\ LastPosted.success = TRUE
                   /\ LastPosted.config = r.config /\ r.config \in Configs
                   /\ LastPosted.webConfig = w
                   /\ simconsole' = simconsole]_vars

IsResponse(e, ok) ==
    /\ e.msg.type = "simulator-extension"
    /\ e.msg.success = ok

C4_Witness ==
    /\ \E j \in 1..Len(outbox) :
          IsResponse(outbox[j], FALSE) /\ "config" \in DOMAIN outbox[j].msg
    /\ \E j \in 1..Len(outbox) : IsResponse(outbox[j], TRUE)

\* the trace the claim describes: "Uncaught <message>", then one line per
\* frame with 1-based line and column
ExpectedTrace(m) ==
    LET line(k) ==
            LET fi == m.stackframes[k].funcInfo
            IN "   at " \o fi.functionName \o " (" \o fi.fileName \o ":"
               \o ToString(fi.line + 1) \o ":" \o ToString(fi.column + 1) \o ")\n"
        upTo[k \in 0..Len(m.stackframes)] ==
            IF k = 0 THEN "" ELSE upTo[k - 1] \o line(k)
    IN "Uncaught " \o m.exceptionMessage \o "\n" \o upTo[Len(m.stackframes)]

\* C5: a debugger message acts iff its subtype is "breakpoint" and it has a
\* (non-empty) exception message: then one trace is appended to the log, the
\* log is shown and exactly one stop-sim message is sent; otherwise nothing
\* is appended and nothing is sent.
C5_DebuggerTrace ==
    [][\A i \in Insts, m \in DebuggerMessages :
          HandleSimulatorMessage(i, m) =>
             IF /\ m.subtype = "breakpoint"
                /\ "exceptionMessage" \in DOMAIN m
                /\ m.exceptionMessage # ""
             THEN /\ simconsole'.lines = Append(simconsole.lines, ExpectedTrace(m))
                  /\ m = BoomAtF =>
                        simconsole'.lines[Len(simconsole'.lines)]
                            = "Uncaught boom\n   at f (x.js:5:3)\n"
                  /\ simconsole'.shown
                  /\ outbox' = Append(outbox,
                                  [to |-> i,
                                   msg |-> [type |-> "stop-sim", _fromVscode |-> TRUE]])
             ELSE /\ simconsole' = simconsole
                  /\ outbox' = outbox]_vars

C5_Witness ==
    /\ simconsole.shown
    /\ \E k \in 1..Len(simconsole.lines) :
          simconsole.lines[k] = "Uncaught boom\n   at f (x.js:5:3)\n"
    /\ \E k \in 1..Len(outbox) : outbox[k].msg.type = "stop-sim"

\* C6: a bulkserial message with n entries appends exactly n lines, the
\* entries' data in order, after the lines already there; it sends nothing.
C6_BulkSerialOrder ==
    [][\A i \in Insts, m \in BulkSerialMessages :
          HandleSimulatorMessage(i, m) =>
             /\ Len(simconsole'.lines) = Len(simconsole.lines) + Len(m.data)
             /\ SubSeq(simconsole'.lines, 1, Len(simconsole.lines)) = simconsole.lines
             /\ \A k \in 1..Len(m.data) :
                   simconsole'.lines[Len(simconsole.lines) + k] = m.data[k].data
             /\ outbox' = outbox]_vars

C6_Witness == simconsole.lines = <<"a", "b">>

\* C7: the document the assembler returns never contains the literal
\* "usePostMessage: false".
C7_NeverFlagFalse ==
    asm.pc = "returned" => ~ContainsFlagFalse(asm.document)

\* the template positions of the custom.js tag
CustomTags == {k \in 1..Len(asm.index) : asm.index[k] = TagCustom}

\* what the assembled document holds where the custom script was inlined
CustomBodyAt(k) == InlinedBody(asm.document, asm.index, asm.loaderJs, asm.chosen, k)

\* the file, if any, whose contents the first-match rule selects
FirstMatch ==
    IF asm.fileA # Absent THEN asm.fileA
    ELSE IF asm.fileB # Absent THEN asm.fileB
    ELSE asm.customJs

\* C8 as claimed: the inlined custom script body is, verbatim, the contents
\* of assets/custom.js if it exists (assets/js/custom.js is then not read),
\* else of assets/js/custom.js if it exists, else the bundle default, and
\* absence of both raises no error.
C8_CustomVerbatim ==
    /\ (asm.pc = "returned" =>
          /\ asm.read = IF asm.fileA # Absent THEN {PathA}
                        ELSE IF asm.fileB # Absent THEN {PathB} ELSE {}
          /\ \A k \in CustomTags : CustomBodyAt(k) = FirstMatch)
    /\ (asm.fileA = Absent /\ asm.fileB = Absent => asm.pc # "rejected")

\* C8 amended: the body chosen is, verbatim, the first match (assets/custom.js,
\* else assets/js/custom.js, else the bundle default; the second file is not
\* read when the first exists; absence of both raises no error); in the
\* assembled document the inlined body is that text, except that when the
\* document's first "usePostMessage: false" lies inside it, that one
\* occurrence reads "usePostMessage: true".
C8_CustomFirstMatch ==
    /\ (asm.pc = "returned" =>
          /\ asm.chosen = FirstMatch
          /\ asm.read = IF asm.fileA # Absent THEN {PathA}
                        ELSE IF asm.fileB # Absent THEN {PathB} ELSE {}
          /\ \A k \in CustomTags :
                \/ CustomBodyAt(k) = FirstMatch
                \/ /\ CustomBodyAt(k) = ReplaceFlag(FirstMatch)
                   /\ \A j \in CustomTags : j < k => CustomBodyAt(j) = FirstMatch)
    /\ (asm.fileA = Absent /\ asm.fileB = Absent => asm.pc # "rejected")

C8_Witness ==
    /\ asm.pc = "returned"
    /\ IsContents(asm.fileA) /\ IsContents(asm.fileB)
    /\ asm.fileA = <<UsePM, False>>
    /\ CustomTags # {}
    /\ \E k \in CustomTags : CustomBodyAt(k) = <<UsePM, True>>

\* C9 as claimed: the "simstate" slot is read at most once for an instance.
C9_ReadAtMostOnce == \A i \in Insts : simReads[i] <= 1

\* C9 amended: the slot is read only by a load that finds no simulator state
\* held (null or undefined) when getSimHtmlAsync has resolved, once per such
\* load and never more often than loads were started; as show() clears the
\* held state, a later load on the same instance reads the slot again.
C9_ReadOnlyWhenNoState ==
    /\ [](\A i \in Insts : simReads[i] <= loadsStarted)
    /\ [][\A i \in Insts :
             simReads'[i] # simReads[i] =>
                /\ NoState(simState[i])
                /\ simReads'[i] = simReads[i] + 1
                /\ \E l \in LoadsOf(i) : l.pc = "simHtml" /\ l \notin loads']_vars

C9_Witness ==
    \E i \in Insts :
        /\ simReads[i] = 2
        /\ loads = {}
        /\ ~NoState(simState[i])
        /\ html[i] # <<>>

HasMarker(msg) == "_fromVscode" \in DOMAIN msg /\ msg._fromVscode = TRUE

\* C10 as claimed: every stop-sim message carries _fromVscode: true, and
\* neither the fetch-js reply nor the targetConfig response carries it.
C10_MarkerOnPushesOnly ==
    \A k \in 1..Len(outbox) :
        LET msg == outbox[k].msg
        IN /\ msg.type = "stop-sim" => HasMarker(msg)
           /\ msg.type \in {"fetch-js", "simulator-extension"} =>
                 "_fromVscode" \notin DOMAIN msg

\* C10 amended: every message sent through postMessage, the stop-sim message
\* and the fetch-js reply, carries _fromVscode: true; the targetConfig
\* response (sent through postResponse) gets no marker.
C10_MarkerOnPostMessage ==
    \A k \in 1..Len(outbox) :
        LET msg == outbox[k].msg
        IN /\ msg.type \in {"stop-sim", "fetch-js"} => HasMarker(msg)
           /\ msg.type = "simulator-extension" => "_fromVscode" \notin DOMAIN msg

C10_Witness ==
    /\ \E k \in 1..Len(outbox) :
          outbox[k].msg.type = "fetch-js" /\ HasMarker(outbox[k].msg)
    /\ \E k \in 1..Len(outbox) : outbox[k].msg.type = "simulator-extension"

(***************************************************************************)
(* C11: within one simulateAsync call the program text is stored and the  *)
(* panel content cleared first, then the document is assembled, then the   *)
(* simulator document text is stored, then the persisted state is restored *)
(* if none is held, and only then is the assembled document published; so  *)
(* whenever the panel content of an instance is a non-empty document, its  *)
(* stored program text and stored document text are both defined, whatever *)
(* the interleaving of loads, shows and inbound messages.                  *)
(***************************************************************************)
C11_LoadOrder ==
    /\ [](\A i \in Insts :
            html[i] # <<>> => binaryJS[i] # Undefined /\ simHtml[i] # Undefined)
    /\ [](\A l \in loads :
            /\ binaryJS[l.inst] # Undefined
            /\ l.pc = "assemble" <=> l.simulatorHTML = <<>>
            /\ l.pc = "simState" => simHtml[l.inst] # Undefined)
    /\ [][/\ \A i \in Insts :
               loadLog'[i].started # loadLog[i].started =>
                  /\ binaryJS'[i] # Undefined /\ html'[i] = <<>>
                  /\ \E l \in loads' \ loads : l.inst = i /\ l.pc = "assemble"
          /\ \A l \in loads \ loads' :
               l.pc = "assemble" => html' = html /\ simHtml' = simHtml
                                    /\ simState' = simState
          /\ \A i \in Insts :
               (html'[i] # html[i] /\ html'[i] # <<>>) =>
                  \E l \in loads \ loads' :
                     /\ l.inst = i /\ l.pc \in {"simHtml", "simState"}
                     /\ html'[i] = l.simulatorHTML
                     /\ simHtml'[i] # Undefined
                     /\ ~NoState(simState'[i])
                     /\ loads' = loads \ {l}]_vars

\* a second load published its document while the first, started before it on
\* the same instance, is still suspended, and the page has been answered
C11_Witness ==
    \E i \in Insts :
        /\ html[i] # <<>>
        /\ loadLog[i].done = 2
        /\ \E l \in loads : l.inst = i /\ l.id = 1
        /\ outbox # <<>>

(***************************************************************************)
(* C12: dispatching a fetch-js message sends exactly one reply that        *)
(* contains every field of the original message plus text equal to the     *)
(* instance's currently stored program text and srcDoc equal to its        *)
(* currently stored document text; after a load has completed with no      *)
(* later load started, these equal the program text passed to that load    *)
(* and the document fetched by that load.                                  *)
(***************************************************************************)
\* one fetch-js dispatch: one more posted message, the reply
C12_ReplyStep ==
    \A i \in Insts, m \in FetchJsMessages :
        HandleSimulatorMessage(i, m) =>
            /\ Len(outbox') = Len(outbox) + 1
            /\ SubSeq(outbox', 1, Len(outbox)) = outbox
            /\ LET reply == outbox'[Len(outbox')]
               IN /\ reply.to = i
                  /\ DOMAIN m \subseteq DOMAIN reply.msg
                  /\ \A k \in DOMAIN m \ {"text", "srcDoc"} : reply.msg[k] = m[k]
                  /\ reply.msg.text = binaryJS[i]
                  /\ reply.msg.srcDoc = simHtml[i]

\* the stored program text is the one passed to the load started last
C12_ProgramStep ==
    \A i \in Insts :
        /\ binaryJS'[i] # binaryJS[i] => loadLog'[i].started # loadLog[i].started
        /\ loadLog'[i].started # loadLog[i].started =>
              \E js \in Programs : SimulateStart(i, js) /\ binaryJS'[i] = js

\* the load started last on instance i has run to its end
LastLoadDone(i) ==
    loadLog[i].done # 0 /\ loadLog[i].done = loadLog[i].started

C12_ReplyOfLastLoad ==
    /\ [][C12_ReplyStep /\ C12_ProgramStep]_vars
    /\ [](\A i \in Insts : LastLoadDone(i) => simHtml[i] = loadLog[i].fetched)

\* C12, amended: the stored document text is the one fetched by the load whose
\* getSimHtmlAsync resolved most recently, which is the load started last
\* only if no load started before it resolved its fetch after it
C12_ReplyOfStored ==
    /\ [][C12_ReplyStep /\ C12_ProgramStep]_vars
    /\ [](\A i \in Insts :
            (LastLoadDone(i) /\ loadLog[i].lastFetch = loadLog[i].done)
               => simHtml[i] = loadLog[i].fetched)

\* the page was answered after the second of two loads had run to its end
C12_Witness ==
    \E i \in Insts :
        /\ LastLoadDone(i) /\ loadLog[i].done = 2
        /\ loadLog[i].lastFetch = 2
        /\ outbox # <<>>
        /\ outbox[Len(outbox)].msg.type = "fetch-js"
        /\ outbox[Len(outbox)].msg.text = binaryJS[i]
        /\ outbox[Len(outbox)].msg.srcDoc = loadLog[i].fetched

(***************************************************************************)
(* C13: dispatching a message whose type is none of fetch-js, bulkserial,  *)
(* debugger, simulator-extension, or a simulator-extension message whose   *)
(* action is not targetConfig, leaves everything unchanged: nothing is     *)
(* posted, nothing is appended to the log, the stored program text,        *)
(* document text, simulator state and current-instance reference stay as   *)
(* they are, and no request is started.                                    *)
(***************************************************************************)
IgnoredMessages ==
    {m \in ReplyMessages :
        \/ m.type \notin {"fetch-js", "bulkserial", "debugger", "simulator-extension"}
        \/ m.type = "simulator-extension" /\ m.action # "targetConfig"}

C13_IgnoredChangesNothing ==
    [][\A i \in Insts, m \in IgnoredMessages :
          HandleSimulatorMessage(i, m) =>
             /\ outbox' = outbox
             /\ simconsole' = simconsole
             /\ tcRequests' = tcRequests
             /\ binaryJS' = binaryJS /\ simHtml' = simHtml
             /\ simState' = simState /\ html' = html
             /\ currentSimulator' = currentSimulator
             /\ panel' = panel]_vars

\* a message of either ignored kind can be dispatched to a live instance that
\* has posted a response and has a request in flight
C13_Witness ==
    \E i \in Insts :
        /\ \A m \in IgnoredMessages : ENABLED HandleSimulatorMessage(i, m)
        /\ Cardinality({m.type : m \in IgnoredMessages}) = 2
        /\ outbox # <<>>
        /\ \E r \in tcRequests : r.inst = i

(***************************************************************************)
(* C14: if a file-existence check or a file read fails during the assembly *)
(* of the document, the failure ends the simulateAsync call that triggered *)
(* it, and that call never publishes a document: it leaves the panel       *)
(* content at the empty value set when it started, and it updates neither  *)
(* the stored document text nor the simulator state.                       *)
(***************************************************************************)
\* load l ends in this step
Ends(l) == l \in loads /\ \A k \in loads' : k.id # l.id

C14_AssemblyFailure ==
    /\ [][\A l \in loads :
            (Ends(l) /\ l.pc = "assemble") =>
               /\ html' = html /\ simHtml' = simHtml /\ simState' = simState
               /\ binaryJS' = binaryJS
               /\ loads' = loads \ {l}
               /\ loadLog' = [loadLog EXCEPT ![l.inst].failedAt = "assemble"]]_vars
    /\ [][\A k \in loads' :
            \/ \E l \in loads : l.id = k.id
            \/ k.id = loadsStarted + 1 /\ k.pc = "assemble"]_vars
    /\ [](\A i \in Insts :
            loadLog[i].done = 0 => html[i] = <<>> /\ NoState(simState[i]))

\* the only load started on an instance has failed in the assembly
C14_Witness ==
    \E i \in Insts :
        /\ loadLog[i].failedAt = "assemble"
        /\ loadLog[i].started = 1 /\ loadsStarted = 1
        /\ LoadsOf(i) = {}
        /\ binaryJS[i] # Undefined
        /\ html[i] = <<>> /\ simHtml[i] = Undefined /\ simState[i] = Undefined

(***************************************************************************)
(* C15: the controller has two states, no panel (initially) and panel      *)
(* live: show or revive moves from no panel to panel live, dispose moves   *)
(* back to no panel and is terminal for the disposed instance, which never *)
(* becomes the current instance again, and a show after a dispose creates  *)
(* a fresh panel and a fresh instance whose program text, document text    *)
(* and simulator state are unset.                                          *)
(***************************************************************************)
NoPanel == currentSimulator = 0 /\ Live = {}
PanelLive == currentSimulator # 0 /\ panel[currentSimulator] = "live"

C15_TwoStates ==
    /\ NoPanel
    /\ [](NoPanel \/ PanelLive)
    /\ [][/\ (NoPanel /\ (CreateOrShow \/ Revive)) => PanelLive'
          /\ \A i \in Insts : Dispose(i) => NoPanel'
          /\ \A i \in Insts :
               panel[i] = "disposed" =>
                  panel'[i] = "disposed" /\ currentSimulator' # i
          /\ \A i \in Insts :
               (panel[i] = "none" /\ panel'[i] # "none") =>
                  /\ panel'[i] = "live" /\ currentSimulator' = i
                  /\ binaryJS'[i] = Undefined /\ simHtml'[i] = Undefined
                  /\ simState'[i] = Undefined /\ html'[i] = <<>>]_vars

(***************************************************************************)
(* C16: when a panel is closed while a simulateAsync call on its instance  *)
(* is suspended at an await, the call is neither cancelled nor guarded: it *)
(* resumes and sets the content of the already disposed panel, and doing   *)
(* so neither re-establishes the current-instance reference nor creates an *)
(* instance.                                                               *)
(***************************************************************************)
\* load l can take its next step
CanResume(l) ==
    ENABLED (\/ LoadAssembled(l)
             \/ \E h \in SimHtmls : LoadSimHtml(l, h)
             \/ LoadSimState(l))

C16_LoadOutlivesPanel ==
    /\ [][\A i \in Insts : Dispose(i) => loads' = loads]_vars
    /\ [](\A l \in loads : panel[l.inst] = "disposed" => CanResume(l))
    /\ [][\A l \in loads :
            (panel[l.inst] = "disposed" /\ l \notin loads') =>
               /\ currentSimulator' = currentSimulator
               /\ panel' = panel
               /\ (Ends(l) /\ l.pc = "simState") =>
                     /\ html'[l.inst] = l.simulatorHTML
                     /\ loadLog'[l.inst].done = l.id
                     /\ loadLog'[l.inst].onDisposed]_vars

\* a load set the content of its panel after the panel was closed, and a later
\* show opened another panel
C16_Witness ==
    \E i \in Insts :
        /\ panel[i] = "disposed"
        /\ loadLog[i].onDisposed
        /\ html[i] # <<>>
        /\ LoadsOf(i) = {}
        /\ currentSimulator \notin {0, i}

(***************************************************************************)
(* C17: disposing the panel of an instance that is no longer the current   *)
(* instance, because a later revive installed another one, never clears or *)
(* changes the current-instance reference: a dispose sets the reference to *)
(* undefined only when it points at the instance being disposed.           *)
(***************************************************************************)
C17_DisposeOfNonCurrent ==
    [][\A i \in Insts :
          Dispose(i) =>
             /\ currentSimulator # i => currentSimulator' = currentSimulator
             /\ currentSimulator = i => currentSimulator' = 0]_vars

\* the first instance was disposed while the second, installed by a revive
\* while the first was live, was current: the second registered a callback
\* before the first did, and the first's callback has run
C17_Witness ==
    /\ panel[1] = "disposed" /\ panel[2] = "live"
    /\ currentSimulator = 2
    /\ disposables[2] = <<1>> /\ disposables[1] = <<2>>
    /\ disposeRuns[2] = 1 /\ disposeRuns[1] = 0

(***************************************************************************)
(* C18: every targetConfig request whose two configuration fetches         *)
(* eventually settle is eventually answered by exactly one response, never *)
(* none and never both a success and a failure response, and the response  *)
(* carries the id of the request; this holds with several requests in      *)
(* flight at once.                                                         *)
(***************************************************************************)
\* request r is answered in this step: it leaves, and one response with its
\* id goes to its instance
Answered(r) ==
    /\ tcRequests' = tcRequests \ {r}
    /\ Len(outbox') = Len(outbox) + 1
    /\ SubSeq(outbox', 1, Len(outbox)) = outbox
    /\ LET response == outbox'[Len(outbox')]
       IN /\ response.to = r.inst
          /\ response.msg.id = r.msg.id
          /\ response.msg.success \in BOOLEAN

C18_AnsweredOnce ==
    /\ \A n \in 1..MaxOut : InFlight(n) ~> ~InFlight(n)
    /\ [][/\ \A r \in tcRequests :
               (\A k \in tcRequests' : k.n # r.n) => Answered(r)
          /\ \A r \in tcRequests, k \in tcRequests' :
               k.n = r.n => /\ k.msg = r.msg /\ k.inst = r.inst
                            /\ \/ k = r
                               \/ /\ r.pc = "target" /\ k.pc = "web"
                                  /\ outbox' = outbox
          /\ outbox' # outbox => \E r \in tcRequests : Answered(r)]_vars

\* the first of two requests in flight at once has been answered with
\* success, the second is still waiting for its target configuration
C18_Witness ==
    /\ \E r \in tcRequests : r.n = 2 /\ r.msg.id = "r2" /\ r.pc = "target"
    /\ ~InFlight(1)
    /\ Len(outbox) = 1
    /\ outbox[1].msg.id = "r1" /\ outbox[1].msg.success

====
